---- MODULE Spec2Model ----
(***************************************************************************)
(* Model of the Next.js pageProps extractor:                               *)
(*   src/utils/next_data_extractor.py  NextDataExtractor, extract_next_data *)
(*   src/utils/generic.py              save_data_to_json                    *)
(*                                                                         *)
(* Encodings.                                                              *)
(*   A Python str is a sequence of one-character strings:                  *)
(*     "a/b" is <<"a", "/", "b">>, "" is <<>>.                             *)
(*   A value produced by json.loads is a tagged record:                    *)
(*     None/null  [t |-> "null"]                                           *)
(*     True/False [t |-> "bool", b |-> TRUE]                               *)
(*     int        [t |-> "num",  n |-> 5]                                  *)
(*     int        [t |-> "bigint", digits |-> <<"1", "2", ...>>]           *)
(*                an int of more than nine digits, as the text writes it   *)
(*     float      [t |-> "float", f |-> <<"1", ".", "5">>]                 *)
(*                f is the number as the text writes it (1.5, -0.0, 2e3),  *)
(*                or NaN, Infinity, -Infinity                              *)
(*     str        [t |-> "str",  s |-> <<"x">>]                            *)
(*     list       [t |-> "arr",  xs |-> << v1, v2 >>]                      *)
(*     dict       [t |-> "obj",  kv |-> << <<key1, v1>>, <<key2, v2>> >>]  *)
(*   with the dict's keys in insertion order, each key once.               *)
(*   Python's None and JSON's null are the same value, as in Python.       *)
(***************************************************************************)
EXTENDS Integers, Sequences, FiniteSets, TLC

(***************************************************************************)
(* Characters                                                              *)
(***************************************************************************)
Digits ==
    {"0", "1", "2", "3", "4", "5", "6", "7", "8", "9"}

Letters ==
    {"a", "b", "c", "d", "e", "f", "g", "h", "i", "j", "k", "l", "m",
     "n", "o", "p", "q", "r", "s", "t", "u", "v", "w", "x", "y", "z",
     "A", "B", "C", "D", "E", "F", "G", "H", "I", "J", "K", "L", "M",
     "N", "O", "P", "Q", "R", "S", "T", "U", "V", "W", "X", "Y", "Z"}

\* str.isalnum() of one character.  The model's characters are ASCII; of
\* these the letters and digits are alphanumeric.
isalnum(c) ==
    c \in Letters \cup Digits

\* Whitespace skipped by the JSON decoder.
JsonWS ==
    {" ", "\t", "\n", "\r"}

\* Whitespace removed by str.strip(), among the model's characters: a
\* superset of JSON's.
StripWS ==
    JsonWS \cup {"\f"}

(***************************************************************************)
(* Strings                                                                 *)
(***************************************************************************)
\* s[i:] for a 1-based position i.
From(s, i) ==
    SubSeq(s, i, Len(s))

\* s.startswith(p)
StartsWith(s, p) ==
    /\ Len(p) <= Len(s)
    /\ SubSeq(s, 1, Len(p)) = p

\* p in s, for strings: p occurs as a contiguous substring.
Contains(s, p) ==
    \E i \in 1..(Len(s) - Len(p) + 1) : SubSeq(s, i, i + Len(p) - 1) = p

\* The positions where p occurs in s.
Occurrences(s, p) ==
    {i \in 1..(Len(s) - Len(p) + 1) : SubSeq(s, i, i + Len(p) - 1) = p}

\* s.replace(old, ""): the leftmost occurrence is removed, then the search
\* goes on after it (occurrences are taken left to right, without overlap,
\* and the result is not scanned again).
RECURSIVE Remove(_, _)
Remove(s, old) ==
    IF Occurrences(s, old) = {} THEN s
    ELSE LET i == CHOOSE k \in Occurrences(s, old) :
                      \A m \in Occurrences(s, old) : k <= m
         IN  SubSeq(s, 1, i - 1) \o Remove(From(s, i + Len(old)), old)

\* s.strip() == ""
IsBlank(s) ==
    \A i \in 1..Len(s) : s[i] \in StripWS

(***************************************************************************)
(* save_data_to_json: the filename derived from the URL                    *)
(***************************************************************************)
HTTP ==
    <<"h", "t", "t", "p", ":", "/", "/">>

HTTPS ==
    <<"h", "t", "t", "p", "s", ":", "/", "/">>

JSON_EXT ==
    <<".", "j", "s", "o", "n">>

\* filename[:100]
MaxNameLen ==
    100

\* url.replace("http://", "").replace("https://", "")
clean_url(url) ==
    Remove(Remove(url, HTTP), HTTPS)

\* Variant: "." is kept as well.
UnderscoredKeepingDots(s) ==
    [i \in 1..Len(s) |-> IF isalnum(s[i]) \/ s[i] = "." THEN s[i] ELSE "_"]

\* "".join(c if c.isalnum() else "_" for c in clean_url)
Underscored(s) ==
    [i \in 1..Len(s) |-> IF isalnum(s[i]) THEN s[i] ELSE "_"]

\* Variant: filename[:99]
TruncatedShort(s) ==
    SubSeq(s, 1, IF Len(s) < MaxNameLen - 1 THEN Len(s) ELSE MaxNameLen - 1)

\* filename[:100]
Truncated(s) ==
    SubSeq(s, 1, IF Len(s) < MaxNameLen THEN Len(s) ELSE MaxNameLen)

\* The stem of the filename: everything before the ".json" extension.
stem(url) ==
    Truncated(Underscored(clean_url(url)))

\* filename = filename[:100] + ".json"
filename(url) ==
    stem(url) \o JSON_EXT

(***************************************************************************)
(* JSON values, as json.loads builds them                                  *)
(***************************************************************************)
JNull ==
    [t |-> "null"]

JBool(b) ==
    [t |-> "bool", b |-> b]

JNum(n) ==
    [t |-> "num", n |-> n]

JBigInt(digits) ==
    [t |-> "bigint", digits |-> digits]

JFloat(f) ==
    [t |-> "float", f |-> f]

JStr(s) ==
    [t |-> "str", s |-> s]

JArr(xs) ==
    [t |-> "arr", xs |-> xs]

JObj(kv) ==
    [t |-> "obj", kv |-> kv]

\* k in d, for a dict d given by its pairs.
HasKey(kv, k) ==
    \E i \in 1..Len(kv) : kv[i][1] = k

\* d[k], for a key the dict has.
Lookup(kv, k) ==
    kv[CHOOSE i \in 1..Len(kv) : kv[i][1] = k][2]

\* d[k] = v while the dict is built from the decoder's pairs: a key met
\* again keeps its place and takes the later value.
Put(kv, k, v) ==
    IF HasKey(kv, k)
    THEN [i \in 1..Len(kv) |-> IF kv[i][1] = k THEN <<k, v>> ELSE kv[i]]
    ELSE Append(kv, <<k, v>>)

(***************************************************************************)
(* json.loads, on texts over: the structural characters { } [ ] : , " \,   *)
(* whitespace, letters, digits, "-", "+", "." and other printable          *)
(* characters inside strings.  Of the string escapes, \" \\ \/ \n \t \r \f *)
(* are decoded (\b and \uXXXX are not among the model's characters).  A    *)
(* number with a fraction or an exponent is a float and keeps its text; an *)
(* integer of more than nine digits keeps its text too.  Integer literals  *)
(* have at most 4300 digits, the most int() converts.                      *)
(***************************************************************************)
\* A decoding step's result: ok, the value, and the position after it.
Fail ==
    [ok |-> FALSE, v |-> JNull, i |-> 0]

Ok(v, i) ==
    [ok |-> TRUE, v |-> v, i |-> i]

\* The first position at or after i that holds no JSON whitespace.
SkipWS(s, i) ==
    CHOOSE j \in i..(Len(s) + 1) :
        /\ \A k \in i..(j - 1) : s[k] \in JsonWS
        /\ (j = Len(s) + 1 \/ s[j] \notin JsonWS)

At(s, i, c) ==
    i <= Len(s) /\ s[i] = c

DigitVal(c) ==
    CASE c = "0" -> 0 [] c = "1" -> 1 [] c = "2" -> 2 [] c = "3" -> 3
      [] c = "4" -> 4 [] c = "5" -> 5 [] c = "6" -> 6 [] c = "7" -> 7
      [] c = "8" -> 8 [] c = "9" -> 9

\* The characters an escape decodes to.
Unescape(c) ==
    CASE c = "n" -> "\n" [] c = "t" -> "\t" [] c = "r" -> "\r"
      [] c = "f" -> "\f" [] OTHER -> c

\* The body of a string, from position i (after the opening quote).
RECURSIVE ScanString(_, _, _)
ScanString(s, i, acc) ==
    IF i > Len(s) THEN Fail
    ELSE IF s[i] = "\"" THEN Ok(acc, i + 1)
    ELSE IF s[i] = "\\"
         THEN IF i + 1 <= Len(s)
                 /\ s[i + 1] \in {"\"", "\\", "/", "n", "t", "r", "f"}
              THEN ScanString(s, i + 2, Append(acc, Unescape(s[i + 1])))
              ELSE Fail
    ELSE IF s[i] \in {"\n", "\t", "\r", "\f"} THEN Fail
    ELSE ScanString(s, i + 1, Append(acc, s[i]))

\* The digits of an integer from position i, most significant first.
RECURSIVE ScanDigits(_, _, _)
ScanDigits(s, i, acc) ==
    IF i <= Len(s) /\ s[i] \in Digits
    THEN ScanDigits(s, i + 1, 10 * acc + DigitVal(s[i]))
    ELSE Ok(acc, i)

\* An int of up to this many digits is held as a number.
MaxSmallDigits ==
    9

\* The first position at or after i that holds no digit.
DigitsEnd(s, i) ==
    CHOOSE j \in i..(Len(s) + 1) :
        /\ \A k \in i..(j - 1) : s[k] \in Digits
        /\ (j = Len(s) + 1 \/ s[j] \notin Digits)

\* (\.[0-9]+)? at position i: the position after it (i when there is none).
FracEnd(s, i) ==
    IF At(s, i, ".") /\ i + 1 <= Len(s) /\ s[i + 1] \in Digits
    THEN DigitsEnd(s, i + 1)
    ELSE i

\* ([eE][-+]?[0-9]+)? at position i: the position after it.
ExpEnd(s, i) ==
    IF i <= Len(s) /\ s[i] \in {"e", "E"}
    THEN LET j == IF i + 1 <= Len(s) /\ s[i + 1] \in {"-", "+"}
                  THEN i + 2 ELSE i + 1
         IN  IF j <= Len(s) /\ s[j] \in Digits THEN DigitsEnd(s, j) ELSE i
    ELSE i

\* (-?(0|[1-9][0-9]*))(\.[0-9]+)?([eE][-+]?[0-9]+)?: an int when there is
\* neither fraction nor exponent, else a float.
ScanNumber(s, i) ==
    LET neg == At(s, i, "-")
        j == IF neg THEN i + 1 ELSE i
    IN  IF j > Len(s) \/ s[j] \notin Digits THEN Fail
        ELSE LET d == IF s[j] = "0" THEN j + 1 ELSE DigitsEnd(s, j)
                 e == ExpEnd(s, FracEnd(s, d))
             IN  IF e # d THEN Ok(JFloat(SubSeq(s, i, e - 1)), e)
                 ELSE IF d - j > MaxSmallDigits
                 THEN Ok(JBigInt(SubSeq(s, i, d - 1)), d)
                 ELSE LET v == ScanDigits(SubSeq(s, j, d - 1), 1, 0).v
                      IN  Ok(JNum(IF neg THEN 0 - v ELSE v), d)

NAN ==
    <<"N", "a", "N">>

INFINITY ==
    <<"I", "n", "f", "i", "n", "i", "t", "y">>

NEG_INFINITY ==
    <<"-">> \o INFINITY

\* What the scanner tries when no number matches: the constants NaN,
\* Infinity and -Infinity (floats).
ScanConstant(s, i) ==
    IF StartsWith(From(s, i), NAN) THEN Ok(JFloat(NAN), i + 3)
    ELSE IF StartsWith(From(s, i), INFINITY) THEN Ok(JFloat(INFINITY), i + 8)
    ELSE IF StartsWith(From(s, i), NEG_INFINITY)
         THEN Ok(JFloat(NEG_INFINITY), i + 9)
    ELSE Fail

RECURSIVE ScanValue(_, _), ScanMembers(_, _, _), ScanElements(_, _, _)
\* One value at position i (no whitespace is skipped before it).
ScanValue(s, i) ==
    IF i > Len(s) THEN Fail
    ELSE IF s[i] = "\""
         THEN LET r == ScanString(s, i + 1, <<>>)
              IN  IF r.ok THEN Ok(JStr(r.v), r.i) ELSE Fail
    ELSE IF s[i] = "{"
         THEN LET j == SkipWS(s, i + 1)
              IN  IF At(s, j, "}") THEN Ok(JObj(<<>>), j + 1)
                  ELSE ScanMembers(s, j, <<>>)
    ELSE IF s[i] = "["
         THEN LET j == SkipWS(s, i + 1)
              IN  IF At(s, j, "]") THEN Ok(JArr(<<>>), j + 1)
                  ELSE ScanElements(s, j, <<>>)
    ELSE IF StartsWith(From(s, i), <<"n", "u", "l", "l">>)
         THEN Ok(JNull, i + 4)
    ELSE IF StartsWith(From(s, i), <<"t", "r", "u", "e">>)
         THEN Ok(JBool(TRUE), i + 4)
    ELSE IF StartsWith(From(s, i), <<"f", "a", "l", "s", "e">>)
         THEN Ok(JBool(FALSE), i + 5)
    ELSE IF ScanNumber(s, i).ok THEN ScanNumber(s, i)
    ELSE ScanConstant(s, i)

\* The members of an object from position i, where a key must start.
ScanMembers(s, i, acc) ==
    IF ~At(s, i, "\"") THEN Fail
    ELSE LET k == ScanString(s, i + 1, <<>>)
         IN  IF ~k.ok THEN Fail
             ELSE LET c == SkipWS(s, k.i)
                  IN  IF ~At(s, c, ":") THEN Fail
                      ELSE LET r == ScanValue(s, SkipWS(s, c + 1))
                           IN  IF ~r.ok THEN Fail
                               ELSE LET e == SkipWS(s, r.i)
                                        kv == Put(acc, k.v, r.v)
                                    IN  IF At(s, e, "}") THEN Ok(JObj(kv), e + 1)
                                        ELSE IF At(s, e, ",")
                                             THEN ScanMembers(s, SkipWS(s, e + 1), kv)
                                        ELSE Fail

\* The elements of an array from position i, where a value must start.
ScanElements(s, i, acc) ==
    LET r == ScanValue(s, i)
    IN  IF ~r.ok THEN Fail
        ELSE LET e == SkipWS(s, r.i)
                 xs == Append(acc, r.v)
             IN  IF At(s, e, "]") THEN Ok(JArr(xs), e + 1)
                 ELSE IF At(s, e, ",")
                      THEN ScanElements(s, SkipWS(s, e + 1), xs)
                 ELSE Fail

\* json.loads(text): [ok |-> FALSE] stands for JSONDecodeError.  The whole
\* text must be one value between optional whitespace.
json_loads(text) ==
    LET r == ScanValue(text, SkipWS(text, 1))
    IN  IF r.ok /\ SkipWS(text, r.i) = Len(text) + 1
        THEN [ok |-> TRUE, v |-> r.v]
        ELSE [ok |-> FALSE, v |-> JNull]

(***************************************************************************)
(* Python operators on decoded values                                      *)
(***************************************************************************)
PROPS ==
    <<"p", "r", "o", "p", "s">>

PAGE_PROPS ==
    <<"p", "a", "g", "e", "P", "r", "o", "p", "s">>

\* float(): the digits of 2^-1075 = 0.2470...625 * 10^-323, half the
\* smallest float above 0.0.  A decimal at or below it is rounded to 0.0
\* (at it, to the even neighbour), one above it to a float that is not 0.0.
HALF_MIN_FLOAT ==
    <<"2", "4", "7", "0", "3", "2", "8", "2", "2", "9", "2", "0", "6", "2",
      "3", "2", "7", "2", "0", "8", "8", "2", "8", "4", "3", "9", "6", "4",
      "3", "4", "1", "1", "0", "6", "8", "6", "1", "8", "2", "5", "2", "9",
      "9", "0", "1", "3", "0", "7", "1", "6", "2", "3", "8", "2", "2", "1",
      "2", "7", "9", "2", "8", "4", "1", "2", "5", "0", "3", "3", "7", "7",
      "5", "3", "6", "3", "5", "1", "0", "4", "3", "7", "5", "9", "3", "2",
      "6", "4", "9", "9", "1", "8", "1", "8", "0", "8", "1", "7", "9", "9",
      "6", "1", "8", "9", "8", "9", "8", "2", "8", "2", "3", "4", "7", "7",
      "2", "2", "8", "5", "8", "8", "6", "5", "4", "6", "3", "3", "2", "8",
      "3", "5", "5", "1", "7", "7", "9", "6", "9", "8", "9", "8", "1", "9",
      "9", "3", "8", "7", "3", "9", "8", "0", "0", "5", "3", "9", "0", "9",
      "3", "9", "0", "6", "3", "1", "5", "0", "3", "5", "6", "5", "9", "5",
      "1", "5", "5", "7", "0", "2", "2", "6", "3", "9", "2", "2", "9", "0",
      "8", "5", "8", "3", "9", "2", "4", "4", "9", "1", "0", "5", "1", "8",
      "4", "4", "3", "5", "9", "3", "1", "8", "0", "2", "8", "4", "9", "9",
      "3", "6", "5", "3", "6", "1", "5", "2", "5", "0", "0", "3", "1", "9",
      "3", "7", "0", "4", "5", "7", "6", "7", "8", "2", "4", "9", "2", "1",
      "9", "3", "6", "5", "6", "2", "3", "6", "6", "9", "8", "6", "3", "6",
      "5", "8", "4", "8", "0", "7", "5", "7", "0", "0", "1", "5", "8", "5",
      "7", "6", "9", "2", "6", "9", "9", "0", "3", "7", "0", "6", "3", "1",
      "1", "9", "2", "8", "2", "7", "9", "5", "5", "8", "5", "5", "1", "3",
      "3", "2", "9", "2", "7", "8", "3", "4", "3", "3", "8", "4", "0", "9",
      "3", "5", "1", "9", "7", "8", "0", "1", "5", "5", "3", "1", "2", "4",
      "6", "5", "9", "7", "2", "6", "3", "5", "7", "9", "5", "7", "4", "6",
      "2", "2", "7", "6", "6", "4", "6", "5", "2", "7", "2", "8", "2", "7",
      "2", "2", "0", "0", "5", "6", "3", "7", "4", "0", "0", "6", "4", "8",
      "5", "4", "9", "9", "9", "7", "7", "0", "9", "6", "5", "9", "9", "4",
      "7", "0", "4", "5", "4", "0", "2", "0", "8", "2", "8", "1", "6", "6",
      "2", "2", "6", "2", "3", "7", "8", "5", "7", "3", "9", "3", "4", "5",
      "0", "7", "3", "6", "3", "3", "9", "0", "0", "7", "9", "6", "7", "7",
      "6", "1", "9", "3", "0", "5", "7", "7", "5", "0", "6", "7", "4", "0",
      "1", "7", "6", "3", "2", "4", "6", "7", "3", "6", "0", "0", "9", "6",
      "8", "9", "5", "1", "3", "4", "0", "5", "3", "5", "5", "3", "7", "4",
      "5", "8", "5", "1", "6", "6", "6", "1", "1", "3", "4", "2", "2", "3",
      "7", "6", "6", "6", "7", "8", "6", "0", "4", "1", "6", "2", "1", "5",
      "9", "6", "8", "0", "4", "6", "1", "9", "1", "4", "4", "6", "7", "2",
      "9", "1", "8", "4", "0", "3", "0", "0", "5", "3", "0", "0", "5", "7",
      "5", "3", "0", "8", "4", "9", "0", "4", "8", "7", "6", "5", "3", "9",
      "1", "7", "1", "1", "3", "8", "6", "5", "9", "1", "6", "4", "6", "2",
      "3", "9", "5", "2", "4", "9", "1", "2", "6", "2", "3", "6", "5", "3",
      "8", "8", "1", "8", "7", "9", "6", "3", "6", "2", "3", "9", "3", "7",
      "3", "2", "8", "0", "4", "2", "3", "8", "9", "1", "0", "1", "8", "6",
      "7", "2", "3", "4", "8", "4", "9", "7", "6", "6", "8", "2", "3", "5",
      "0", "8", "9", "8", "6", "3", "3", "8", "8", "5", "8", "7", "9", "2",
      "5", "6", "2", "8", "3", "0", "2", "7", "5", "5", "9", "9", "5", "6",
      "5", "7", "5", "2", "4", "4", "5", "5", "5", "0", "7", "2", "5", "5",
      "1", "8", "9", "3", "1", "3", "6", "9", "0", "8", "3", "6", "2", "5",
      "4", "7", "7", "9", "1", "8", "6", "9", "4", "8", "6", "6", "7", "9",
      "9", "4", "9", "6", "8", "3", "2", "4", "0", "4", "9", "7", "0", "5",
      "8", "2", "1", "0", "2", "8", "5", "1", "3", "1", "8", "5", "4", "5",
      "1", "3", "9", "6", "2", "1", "3", "8", "3", "7", "7", "2", "2", "8",
      "2", "6", "1", "4", "5", "4", "3", "7", "6", "9", "3", "4", "1", "2",
      "5", "3", "2", "0", "9", "8", "5", "9", "1", "3", "2", "7", "6", "6",
      "7", "2", "3", "6", "3", "2", "8", "1", "2", "5">>

HALF_MIN_FLOAT_EXP ==
    0 - 323

\* Decimal exponents are capped here: no text is long enough to make up
\* for an exponent of this size.
ExpCap ==
    1000000000

\* The parts of a float's text: the digits before the exponent (integer
\* part then fraction), how many of them are the fraction, the exponent.
FloatParts(f) ==
    LET j  == IF f[1] = "-" THEN 2 ELSE 1
        d  == DigitsEnd(f, j)
        fe == FracEnd(f, d)
        ee == ExpEnd(f, fe)
        x  == IF ee = fe THEN fe
              ELSE IF f[fe + 1] \in {"-", "+"} THEN fe + 2 ELSE fe + 1
        z  == IF ee = fe THEN ee
              ELSE CHOOSE k \in x..ee :
                      /\ \A m \in x..(k - 1) : f[m] = "0"
                      /\ (k = ee \/ f[k] # "0")
        mag == IF ee - z > MaxSmallDigits THEN ExpCap
               ELSE ScanDigits(f, z, 0).v
    IN  [digits |-> SubSeq(f, j, d - 1) \o SubSeq(f, d + 1, fe - 1),
         frac   |-> IF fe = d THEN 0 ELSE fe - d - 1,
         exp    |-> IF ee # fe /\ f[fe + 1] = "-" THEN 0 - mag ELSE mag]

\* The i-th digit of 0.d1d2..., zero past the end of ds.
DigitAt(ds, i) ==
    IF i <= Len(ds) THEN DigitVal(ds[i]) ELSE 0

\* 0.a1a2... > 0.b1b2...
DigitsAbove(a, b) ==
    \E i \in 1..Len(a) :
        /\ DigitAt(a, i) > DigitAt(b, i)
        /\ \A k \in 1..(i - 1) : DigitAt(a, k) = DigitAt(b, k)

\* bool() of the float that float() makes of the text f: NaN and the
\* infinities are not 0.0; a decimal is 0.0 when all its digits are 0 or
\* when it is too small to be rounded to a float above 0.0.
FloatNonZero(f) ==
    IF f \in {NAN, INFINITY, NEG_INFINITY} THEN TRUE
    ELSE LET p  == FloatParts(f)
             n  == Len(p.digits)
             lz == CHOOSE k \in 0..n :
                       /\ \A m \in 1..k : p.digits[m] = "0"
                       /\ (k = n \/ p.digits[k + 1] # "0")
             e  == (n - lz) - p.frac + p.exp
         IN  /\ lz < n
             /\ \/ e > HALF_MIN_FLOAT_EXP
                \/ /\ e = HALF_MIN_FLOAT_EXP
                   /\ DigitsAbove(SubSeq(p.digits, lz + 1, n), HALF_MIN_FLOAT)

\* bool(v): the test of "if page_props:".
Truthy(v) ==
    CASE v.t = "null" -> FALSE
      [] v.t = "bool" -> v.b
      [] v.t = "num"  -> v.n # 0
      [] v.t = "bigint" -> TRUE
      [] v.t = "float" -> FloatNonZero(v.f)
      [] v.t = "str"  -> v.s # <<>>
      [] v.t = "arr"  -> v.xs # <<>>
      [] v.t = "obj"  -> v.kv # <<>>

\* "k in v" for a str k: key membership in a dict, element membership in a
\* list, substring in a str; TypeError for None, bool, int and float.
PyIn(k, v) ==
    CASE v.t = "obj" -> [exc |-> FALSE, r |-> HasKey(v.kv, k)]
      [] v.t = "arr" -> [exc |-> FALSE,
                         r |-> \E i \in 1..Len(v.xs) :
                                   v.xs[i].t = "str" /\ v.xs[i].s = k]
      [] v.t = "str" -> [exc |-> FALSE, r |-> Contains(v.s, k)]
      [] OTHER       -> [exc |-> TRUE, r |-> FALSE]

\* "v[k]" for a str k, reached only after "k in v" was true: the value of
\* the key in a dict; TypeError for a list or a str (indices must be
\* integers).
PyIndex(v, k) ==
    IF v.t = "obj" /\ HasKey(v.kv, k)
    THEN [exc |-> FALSE, v |-> Lookup(v.kv, k)]
    ELSE [exc |-> TRUE, v |-> JNull]

\* What the validation of the decoded blob does:
\*   if 'props' in next_data and 'pageProps' in next_data['props']:
\*       return next_data['props']['pageProps']
\*   else: raise ValueError("Missing 'props.pageProps' in __NEXT_DATA__")
\* exc is "" for a return, else the exception raised.
TypeErr ==
    [exc |-> "TypeError", v |-> JNull]

MissingErr ==
    [exc |-> "ValueError: Missing props.pageProps", v |-> JNull]

\* Variant: return next_data['props'], one level short.
page_props_of_outer(next_data) ==
    LET in1 == PyIn(PROPS, next_data)
    IN  IF in1.exc THEN TypeErr
        ELSE IF ~in1.r THEN MissingErr
        ELSE LET props == PyIndex(next_data, PROPS)
             IN  IF props.exc THEN TypeErr
                 ELSE [exc |-> "", v |-> props.v]

\* Variant: the value at pageProps must itself be a dict.
page_props_of_strict(next_data) ==
    LET in1 == PyIn(PROPS, next_data)
    IN  IF in1.exc THEN TypeErr
        ELSE IF ~in1.r THEN MissingErr
        ELSE LET props == PyIndex(next_data, PROPS)
             IN  IF props.exc THEN TypeErr
                 ELSE LET in2 == PyIn(PAGE_PROPS, props.v)
                      IN  IF in2.exc THEN TypeErr
                          ELSE IF ~in2.r THEN MissingErr
                          ELSE LET pp == PyIndex(props.v, PAGE_PROPS)
                               IN  IF pp.exc THEN TypeErr
                                   ELSE IF pp.v.t # "obj" THEN MissingErr
                                   ELSE [exc |-> "", v |-> pp.v]

page_props_of(next_data) ==
    LET in1 == PyIn(PROPS, next_data)
    IN  IF in1.exc THEN TypeErr
        ELSE IF ~in1.r THEN MissingErr
        ELSE LET props == PyIndex(next_data, PROPS)
             IN  IF props.exc THEN TypeErr
                 ELSE LET in2 == PyIn(PAGE_PROPS, props.v)
                      IN  IF in2.exc THEN TypeErr
                          ELSE IF ~in2.r THEN MissingErr
                          ELSE LET pp == PyIndex(props.v, PAGE_PROPS)
                               IN  IF pp.exc THEN TypeErr
                                   ELSE [exc |-> "", v |-> pp.v]

\* "not script_text or script_text.strip() == ''"
is_empty_text(script_text) ==
    script_text = <<>> \/ IsBlank(script_text)

(***************************************************************************)
(* The texts the page's __NEXT_DATA__ element may carry                    *)
(***************************************************************************)
\* {"props":{"pageProps":{"a":1}}}
T_a1 ==
    <<"{", "\"", "p", "r", "o", "p", "s", "\"", ":", "{", "\"", "p", "a",
      "g", "e", "P", "r", "o", "p", "s", "\"", ":", "{", "\"", "a", "\"",
      ":", "1", "}", "}", "}">>

\* {"props":{"pageProps":{"a":1}},"page":"x"}
T_a1_page ==
    <<"{", "\"", "p", "r", "o", "p", "s", "\"", ":", "{", "\"", "p", "a",
      "g", "e", "P", "r", "o", "p", "s", "\"", ":", "{", "\"", "a", "\"",
      ":", "1", "}", "}", ",", "\"", "p", "a", "g", "e", "\"", ":", "\"",
      "x", "\"", "}">>

\*  {"props": {"pageProps": {"a": 1}}}\n
T_ws ==
    <<" ", "{", "\"", "p", "r", "o", "p", "s", "\"", ":", " ", "{", "\"",
      "p", "a", "g", "e", "P", "r", "o", "p", "s", "\"", ":", " ", "{",
      "\"", "a", "\"", ":", " ", "1", "}", "}", "}", "\n">>

\* {"props":{"pageProps":{"a":1}},"props":{"pageProps":{"b":2}}}
T_dup ==
    <<"{", "\"", "p", "r", "o", "p", "s", "\"", ":", "{", "\"", "p", "a",
      "g", "e", "P", "r", "o", "p", "s", "\"", ":", "{", "\"", "a", "\"",
      ":", "1", "}", "}", ",", "\"", "p", "r", "o", "p", "s", "\"", ":",
      "{", "\"", "p", "a", "g", "e", "P", "r", "o", "p", "s", "\"", ":",
      "{", "\"", "b", "\"", ":", "2", "}", "}", "}">>

\* {"props":{"pageProps":{}}}
T_emptyobj ==
    <<"{", "\"", "p", "r", "o", "p", "s", "\"", ":", "{", "\"", "p", "a",
      "g", "e", "P", "r", "o", "p", "s", "\"", ":", "{", "}", "}", "}">>

\* {"props":{"pageProps":5}}
T_num ==
    <<"{", "\"", "p", "r", "o", "p", "s", "\"", ":", "{", "\"", "p", "a",
      "g", "e", "P", "r", "o", "p", "s", "\"", ":", "5", "}", "}">>

\* {"props":{"pageProps":0}}
T_zero ==
    <<"{", "\"", "p", "r", "o", "p", "s", "\"", ":", "{", "\"", "p", "a",
      "g", "e", "P", "r", "o", "p", "s", "\"", ":", "0", "}", "}">>

\* {"props":{"pageProps":null}}
T_null ==
    <<"{", "\"", "p", "r", "o", "p", "s", "\"", ":", "{", "\"", "p", "a",
      "g", "e", "P", "r", "o", "p", "s", "\"", ":", "n", "u", "l", "l",
      "}", "}">>

\* {"props":{"pageProps":"x"}}
T_str ==
    <<"{", "\"", "p", "r", "o", "p", "s", "\"", ":", "{", "\"", "p", "a",
      "g", "e", "P", "r", "o", "p", "s", "\"", ":", "\"", "x", "\"", "}",
      "}">>

\* {"props":{"pageProps":[1]}}
T_arr ==
    <<"{", "\"", "p", "r", "o", "p", "s", "\"", ":", "{", "\"", "p", "a",
      "g", "e", "P", "r", "o", "p", "s", "\"", ":", "[", "1", "]", "}", "}">>

\* {"props":{"pageProps":NaN}}
T_nan ==
    <<"{", "\"", "p", "r", "o", "p", "s", "\"", ":", "{", "\"", "p", "a",
      "g", "e", "P", "r", "o", "p", "s", "\"", ":", "N", "a", "N", "}",
      "}">>

\* {"props":{"pageProps":0.0}}
T_zerofloat ==
    <<"{", "\"", "p", "r", "o", "p", "s", "\"", ":", "{", "\"", "p", "a",
      "g", "e", "P", "r", "o", "p", "s", "\"", ":", "0", ".", "0", "}",
      "}">>

\* {"props":{"pageProps":-1.5e2}}
T_float ==
    <<"{", "\"", "p", "r", "o", "p", "s", "\"", ":", "{", "\"", "p", "a",
      "g", "e", "P", "r", "o", "p", "s", "\"", ":", "-", "1", ".", "5",
      "e", "2", "}", "}">>

\* {"props":{"pageProps":1e-400}}
T_underflow ==
    <<"{", "\"", "p", "r", "o", "p", "s", "\"", ":", "{", "\"", "p", "a",
      "g", "e", "P", "r", "o", "p", "s", "\"", ":", "1", "e", "-", "4",
      "0", "0", "}", "}">>

\* {"other":1}
T_other ==
    <<"{", "\"", "o", "t", "h", "e", "r", "\"", ":", "1", "}">>

\* {"props":{"a":1}}
T_noPageProps ==
    <<"{", "\"", "p", "r", "o", "p", "s", "\"", ":", "{", "\"", "a", "\"",
      ":", "1", "}", "}">>

\* {"props":1}
T_propsNum ==
    <<"{", "\"", "p", "r", "o", "p", "s", "\"", ":", "1", "}">>

\* {"props":"xpagePropsx"}
T_propsStr ==
    <<"{", "\"", "p", "r", "o", "p", "s", "\"", ":", "\"", "x", "p", "a",
      "g", "e", "P", "r", "o", "p", "s", "x", "\"", "}">>

\* {"props":["pageProps"]}
T_propsArr ==
    <<"{", "\"", "p", "r", "o", "p", "s", "\"", ":", "[", "\"", "p", "a",
      "g", "e", "P", "r", "o", "p", "s", "\"", "]", "}">>

\* 1
T_topNum ==
    <<"1">>

\* ["props"]
T_topArr ==
    <<"[", "\"", "p", "r", "o", "p", "s", "\"", "]">>

\* "props"
T_topStr ==
    <<"\"", "p", "r", "o", "p", "s", "\"">>

\* {not json
T_bad ==
    <<"{", "n", "o", "t", " ", "j", "s", "o", "n">>

\* {"props":{"pageProps":{"a":1}}
T_trunc ==
    <<"{", "\"", "p", "r", "o", "p", "s", "\"", ":", "{", "\"", "p", "a",
      "g", "e", "P", "r", "o", "p", "s", "\"", ":", "{", "\"", "a", "\"",
      ":", "1", "}", "}">>

\* {"props":{"pageProps":{"a":1}}}x
T_extra ==
    <<"{", "\"", "p", "r", "o", "p", "s", "\"", ":", "{", "\"", "p", "a",
      "g", "e", "P", "r", "o", "p", "s", "\"", ":", "{", "\"", "a", "\"",
      ":", "1", "}", "}", "}", "x">>

\* 
T_empty ==
    <<>>

\*  \n\t
T_blank ==
    <<" ", "\n", "\t">>

PageTexts ==
    {T_a1, T_a1_page, T_ws, T_dup, T_emptyobj,
     T_num, T_zero, T_null, T_str, T_arr,
     T_other, T_noPageProps, T_propsNum, T_propsStr, T_propsArr,
     T_topNum, T_topArr, T_topStr, T_bad, T_trunc,
     T_extra, T_empty, T_blank, T_nan, T_zerofloat, T_float,
     T_underflow}

(***************************************************************************)
(* Bounds and inputs of the state machine                                  *)
(***************************************************************************)
\* Calls made on the extractor in one run (each opens at most one session).
MaxCalls ==
    2

\* http://a.b/c
URL_A ==
    <<"h", "t", "t", "p", ":", "/", "/", "a", ".", "b", "/", "c">>

\* https://a-b/c   (the same filename as URL_A: a_b_c.json)
URL_B ==
    <<"h", "t", "t", "p", "s", ":", "/", "/", "a", "-", "b", "/", "c">>

\* x.io
URL_C ==
    <<"x", ".", "i", "o">>

PageUrls ==
    {URL_A, URL_B, URL_C}

\* What get_attribute returns: None, or a str.
NoAttr ==
    [none |-> TRUE, s |-> <<>>]

Attr(s) ==
    [none |-> FALSE, s |-> s]

\* a or b or "": the first operand that is neither None nor "".
FirstText(a, b) ==
    IF ~a.none /\ a.s # <<>> THEN a.s
    ELSE IF ~b.none /\ b.s # <<>> THEN b.s
    ELSE <<>>

\* The content of a file whose write failed part-way.
Partial ==
    [t |-> "partial"]

NoFiles ==
    [n \in {} |-> JNull]

(***************************************************************************)
(* State                                                                   *)
(***************************************************************************)
VARIABLES
    pc,           \* the statement the running call is at; "idle" between calls
    call,         \* the entry point running: extract_page_props,
                  \* extract_and_save, extract_next_data, __exit__
    calls,        \* calls started so far
    page_url,     \* the call's argument
    driver,       \* self.driver of the extractor the caller holds: 0 for
                  \* None, else the session's number
    own,          \* self.driver of the extractor extract_next_data built
    opened,       \* sessions opened so far; they are numbered 1..opened
    quits,        \* quits[s]: how many times quit() was invoked on session s
    live,         \* the sessions whose browser process is running
    script_text,  \* the local script_text
    next_data,    \* the local next_data
    page_props,   \* what extract_page_props returns (JNull for None)
    error,        \* the exception the except clause caught, "" if none
    raised,       \* an exception is leaving the call
    result,       \* what extract_and_save returns: "unset", "True", "False"
    save_ret,     \* what save_data_to_json returned: "unset", "path", "None"
    log,          \* the driver and file operations of the running call
    dir_exists,   \* the output folder exists
    files,        \* the output folder: filename -> content
    before,       \* dir_exists and files as the running call started
    s_fed,        \* filename derivation alone: what was fed back
    s_pc,         \* filename derivation alone: its stage
    s_url,        \* ... its input
    s_name,       \* ... filename(s_url)
    s_again       \* ... the derivation applied to its own output

callVars ==
    <<pc, call, calls, page_url, script_text, next_data, page_props, error,
      raised, result, save_ret, log, before>>

driverVars ==
    <<driver, own, opened, quits, live>>

fileVars ==
    <<dir_exists, files>>

sanVars ==
    <<s_pc, s_url, s_name, s_again, s_fed>>

vars ==
    <<callVars, driverVars, fileVars, sanVars>>

Sessions ==
    1..MaxCalls

\* The extractor as constructed, before any call, with an empty folder.
MainInit ==
    /\ pc = "idle"
    /\ call = "none"
    /\ calls = 0
    /\ page_url = <<>>
    /\ driver = 0
    /\ own = 0
    /\ opened = 0
    /\ quits = [s \in Sessions |-> 0]
    /\ live = {}
    /\ script_text = <<>>
    /\ next_data = JNull
    /\ page_props = JNull
    /\ error = ""
    /\ raised = FALSE
    /\ result = "unset"
    /\ save_ret = "unset"
    /\ log = <<>>
    /\ dir_exists = FALSE
    /\ files = NoFiles
    /\ before = [dir |-> FALSE, files |-> NoFiles]

Init ==
    /\ MainInit
    /\ s_pc = "off"
    /\ s_url = <<>>
    /\ s_name = <<>>
    /\ s_again = <<>>
    /\ s_fed = "none"

Logged(op, ok) ==
    log' = Append(log, [op |-> op, ok |-> ok])

(***************************************************************************)
(* Entry points                                                            *)
(***************************************************************************)
\* The locals of a call as it starts.
Enter(kind, url) ==
    /\ pc = "idle"
    /\ calls < MaxCalls
    /\ calls' = calls + 1
    /\ call' = kind
    /\ page_url' = url
    /\ script_text' = <<>>
    /\ next_data' = JNull
    /\ page_props' = JNull
    /\ error' = ""
    /\ raised' = FALSE
    /\ result' = "unset"
    /\ save_ret' = "unset"
    /\ log' = <<>>
    /\ before' = [dir |-> dir_exists, files |-> files]
    /\ UNCHANGED <<fileVars, sanVars>>

\* extractor.extract_page_props(page_url)
CallExtractPageProps ==
    \E url \in PageUrls :
        /\ Enter("extract_page_props", url)
        /\ pc' = "init"
        /\ UNCHANGED driverVars

\* extractor.extract_and_save(page_url)
CallExtractAndSave ==
    \E url \in PageUrls :
        /\ Enter("extract_and_save", url)
        /\ pc' = "init"
        /\ UNCHANGED driverVars

\* extract_next_data(homepage_url, page_url): a new extractor, whose
\* constructor sets its self.driver = None, then its extract_and_save.  The
\* extractor the caller holds is not touched.
CallExtractNextData ==
    \E url \in PageUrls :
        /\ Enter("extract_next_data", url)
        /\ pc' = "init"
        /\ own' = 0
        /\ UNCHANGED <<driver, opened, quits, live>>

\* with NextDataExtractor(...) as extractor: ... leaves the block
CallExit ==
    /\ Enter("__exit__", <<>>)
    /\ pc' = "exit"
    /\ UNCHANGED driverVars

(***************************************************************************)
(* The driver's lifecycle                                                  *)
(***************************************************************************)
\* self.driver of the running call: extract_next_data runs on the extractor
\* it built, every other call on the extractor the caller holds.
SelfDriver ==
    IF call = "extract_next_data" THEN own ELSE driver

\* self.driver = d
SetSelfDriver(d) ==
    IF call = "extract_next_data"
    THEN own' = d /\ driver' = driver
    ELSE driver' = d /\ own' = own

\* _initialize_driver: webdriver.Chrome(...) either starts a browser, which
\* is stored in self.driver, or raises and leaves self.driver as it was.
\* Both platform branches have this shape.
initialize_driver(ok) ==
    IF ok
    THEN /\ opened' = opened + 1
         /\ SetSelfDriver(opened + 1)
         /\ live' = live \cup {opened + 1}
         /\ quits' = quits
    ELSE UNCHANGED driverVars

\* _close_driver: if self.driver: self.driver.quit(); self.driver = None.
\* quit() returns (ok) or raises; a quit() that raised may or may not have
\* ended the browser process (stays).
close_driver(ok, stays) ==
    IF SelfDriver = 0
    THEN UNCHANGED driverVars
    ELSE /\ quits' = [quits EXCEPT ![SelfDriver] = @ + 1]
         /\ opened' = opened
         /\ IF ok
            THEN /\ SetSelfDriver(0)
                 /\ live' = live \ {SelfDriver}
            ELSE /\ SetSelfDriver(SelfDriver)
                 /\ live' = IF stays THEN live ELSE live \ {SelfDriver}

\* _close_driver as a statement of a call: when quit() raises, the
\* exception leaves the call.
Close(after) ==
    \E ok \in BOOLEAN, stays \in BOOLEAN :
        /\ close_driver(ok, stays)
        /\ log' = IF SelfDriver = 0 THEN log
                  ELSE Append(log, [op |-> "quit", ok |-> ok])
        /\ raised' = (SelfDriver # 0 /\ ~ok)
        /\ pc' = IF SelfDriver # 0 /\ ~ok THEN "return" ELSE after

\* __exit__: self._close_driver()
Exit ==
    /\ pc = "exit"
    /\ Close("return")
    /\ UNCHANGED <<before, call, calls, page_url, script_text, next_data, page_props,
                   error, result, save_ret, fileVars, sanVars>>

(***************************************************************************)
(* extract_page_props                                                      *)
(***************************************************************************)
\* except Exception as e: print(...); return None
Caught(e) ==
    /\ error' = e
    /\ page_props' = JNull
    /\ pc' = "finally"

\* self._initialize_driver()
InitializeDriver ==
    /\ pc = "init"
    /\ \E ok \in BOOLEAN :
        /\ initialize_driver(ok)
        /\ Logged("launch", ok)
        /\ IF ok
           THEN pc' = "set_timeout" /\ UNCHANGED <<error, page_props>>
           ELSE Caught("Exception: Failed to create Chrome WebDriver")
    /\ UNCHANGED <<before, call, calls, page_url, script_text, next_data, raised,
                   result, save_ret, fileVars, sanVars>>

\* Variant: a failed driver call is ignored and the next statement runs.
DriverStepIgnoringFailure(at, op, after, e) ==
    /\ pc = at
    /\ \E ok \in BOOLEAN : Logged(op, ok)
    /\ pc' = after
    /\ UNCHANGED <<before, call, calls, page_url, script_text, next_data,
                   raised, result, save_ret, error, page_props, driverVars,
                   fileVars, sanVars>>

\* One call on the driver inside the try block: it returns, or it raises
\* and the except clause takes over.
DriverStep(at, op, after, e) ==
    /\ pc = at
    /\ \E ok \in BOOLEAN :
        /\ Logged(op, ok)
        /\ IF ok
           THEN pc' = after /\ UNCHANGED <<error, page_props>>
           ELSE Caught(e)
    /\ UNCHANGED <<before, call, calls, page_url, script_text, next_data, raised,
                   result, save_ret, driverVars, fileVars, sanVars>>

\* self.driver.set_page_load_timeout(30)
SetPageLoadTimeout ==
    DriverStep("set_timeout", "set_timeout", "get_home", "WebDriverException")

\* self.driver.get(self.homepage_url)
GetHomepage ==
    DriverStep("get_home", "get_home", "get_page", "TimeoutException: page load")

\* self.driver.get(page_url)
GetPage ==
    DriverStep("get_page", "get_page", "scroll", "TimeoutException: page load")

\* self.driver.execute_script("window.scrollBy(0, 300);")
Scroll ==
    DriverStep("scroll", "scroll", "wait_ready", "WebDriverException")

\* WebDriverWait(self.driver, 30).until(readyState == "complete")
WaitReady ==
    DriverStep("wait_ready", "wait_ready", "wait_elem",
               "TimeoutException: readyState")

\* WebDriverWait(self.driver, 10).until(presence of __NEXT_DATA__)
WaitElement ==
    DriverStep("wait_elem", "wait_elem", "read",
               "TimeoutException: __NEXT_DATA__")

\* next_data_script = self.driver.find_element(By.ID, "__NEXT_DATA__")
\* script_text = get_attribute("textContent") or get_attribute("text") or ""
ReadText ==
    /\ pc = "read"
    /\ \E ok \in BOOLEAN :
        /\ Logged("read", ok)
        /\ IF ok
           THEN /\ \E tc \in {NoAttr} \cup {Attr(t) : t \in PageTexts},
                      tx \in {NoAttr, Attr(T_a1)} :
                        script_text' = FirstText(tc, tx)
                /\ pc' = "check_empty"
                /\ UNCHANGED <<error, page_props>>
           ELSE /\ Caught("NoSuchElementException")
                /\ UNCHANGED script_text
    /\ UNCHANGED <<before, call, calls, page_url, next_data, raised, result,
                   save_ret, driverVars, fileVars, sanVars>>

\* if not script_text or script_text.strip() == "": raise ValueError(...)
CheckEmpty ==
    /\ pc = "check_empty"
    /\ IF is_empty_text(script_text)
       THEN Caught("ValueError: Empty __NEXT_DATA__ script content")
       ELSE pc' = "parse" /\ UNCHANGED <<error, page_props>>
    /\ UNCHANGED <<before, call, calls, page_url, script_text, next_data, raised,
                   result, save_ret, log, driverVars, fileVars, sanVars>>

\* next_data = json.loads(script_text)
Parse ==
    /\ pc = "parse"
    /\ LET r == json_loads(script_text)
       IN  IF r.ok
           THEN /\ next_data' = r.v
                /\ pc' = "validate"
                /\ UNCHANGED <<error, page_props>>
           ELSE /\ Caught("JSONDecodeError")
                /\ UNCHANGED next_data
    /\ Logged("parse", json_loads(script_text).ok)
    /\ UNCHANGED <<before, call, calls, page_url, script_text, raised, result,
                   save_ret, driverVars, fileVars, sanVars>>

\* if 'props' in next_data and 'pageProps' in next_data['props']:
\*     return next_data['props']['pageProps']
\* else: raise ValueError(...)
Validate ==
    /\ pc = "validate"
    /\ LET r == page_props_of(next_data)
       IN  IF r.exc = ""
           THEN /\ page_props' = r.v
                /\ error' = ""
                /\ pc' = "finally"
           ELSE Caught(r.exc)
    /\ UNCHANGED <<before, call, calls, page_url, script_text, next_data, raised,
                   result, save_ret, log, driverVars, fileVars, sanVars>>

\* finally: self._close_driver()
Finally ==
    /\ pc = "finally"
    /\ Close(IF call = "extract_page_props" THEN "return" ELSE "branch")
    /\ UNCHANGED <<before, call, calls, page_url, script_text, next_data, page_props,
                   error, result, save_ret, fileVars, sanVars>>

(***************************************************************************)
(* save_data_to_json and extract_and_save                                  *)
(***************************************************************************)
SaveFaults ==
    {"none", "makedirs", "open", "write"}

\* The folder after files[name] = content.
Stored(name, content) ==
    [n \in (DOMAIN files) \cup {name} |->
        IF n = name THEN content ELSE files[n]]

\* save_data_to_json(data, url): os.makedirs, the filename, open(.., "w"),
\* json.dump; any exception is caught and None returned.  fault names the
\* operation that raises, if one does.
save_data_to_json(data, url, fault) ==
    CASE fault = "makedirs" ->
            /\ UNCHANGED fileVars
            /\ save_ret' = "None"
            /\ log' = log \o <<[op |-> "makedirs", ok |-> FALSE]>>
      [] fault = "open" ->
            /\ dir_exists' = TRUE
            /\ files' = files
            /\ save_ret' = "None"
            /\ log' = log \o <<[op |-> "makedirs", ok |-> TRUE],
                               [op |-> "open", ok |-> FALSE]>>
      [] fault = "write" ->
            /\ dir_exists' = TRUE
            /\ files' = Stored(filename(url), Partial)
            /\ save_ret' = "None"
            /\ log' = log \o <<[op |-> "makedirs", ok |-> TRUE],
                               [op |-> "open", ok |-> TRUE],
                               [op |-> "write", ok |-> FALSE]>>
      [] fault = "none" ->
            /\ dir_exists' = TRUE
            /\ files' = Stored(filename(url), data)
            /\ save_ret' = "path"
            /\ log' = log \o <<[op |-> "makedirs", ok |-> TRUE],
                               [op |-> "open", ok |-> TRUE],
                               [op |-> "write", ok |-> TRUE]>>

\* Variant: save whatever the extraction gave.
should_save_always(v) ==
    TRUE

\* if page_props:
should_save(v) ==
    Truthy(v)

\* What extract_and_save returns after save_data_to_json returned ret.
saved_result(ret) ==
    "True"

\* page_props = self.extract_page_props(page_url); if page_props: ...
\* else: ... return False
Branch ==
    /\ pc = "branch"
    /\ IF should_save(page_props)
       THEN pc' = "save" /\ result' = result
       ELSE pc' = "return" /\ result' = "False"
    /\ UNCHANGED <<before, call, calls, page_url, script_text, next_data, page_props,
                   error, raised, save_ret, log, driverVars, fileVars,
                   sanVars>>

\* save_data_to_json(page_props, page_url); return True
Save ==
    /\ pc = "save"
    /\ \E fault \in SaveFaults :
        save_data_to_json(page_props, page_url, fault)
    /\ result' = saved_result(save_ret')
    /\ pc' = "return"
    /\ UNCHANGED <<before, call, calls, page_url, script_text, next_data, page_props,
                   error, raised, driverVars, sanVars>>

\* The call is over: its locals and its result are gone.
Return ==
    /\ pc = "return"
    /\ pc' = "idle"
    /\ call' = "none"
    /\ page_url' = <<>>
    /\ script_text' = <<>>
    /\ next_data' = JNull
    /\ page_props' = JNull
    /\ error' = ""
    /\ raised' = FALSE
    /\ result' = "unset"
    /\ save_ret' = "unset"
    /\ log' = <<>>
    /\ before' = [dir |-> dir_exists, files |-> files]
    /\ UNCHANGED <<calls, driverVars, fileVars, sanVars>>

Next ==
    \/ CallExtractPageProps
    \/ CallExtractAndSave
    \/ CallExtractNextData
    \/ CallExit
    \/ Exit
    \/ InitializeDriver
    \/ SetPageLoadTimeout
    \/ GetHomepage
    \/ GetPage
    \/ Scroll
    \/ WaitReady
    \/ WaitElement
    \/ ReadText
    \/ CheckEmpty
    \/ Parse
    \/ Validate
    \/ Finally
    \/ Branch
    \/ Save
    \/ Return

Spec ==
    Init /\ [][Next]_vars

(***************************************************************************)
(* The filename derivation on its own: save_data_to_json's lines 40-44     *)
(* applied to a URL, and then to its own output                            *)
(***************************************************************************)
\* How far the padded URLs reach on either side of the 100-character cut.
PadSpan ==
    2

\* n times "a"
Pad(n) ==
    [i \in 1..n |-> "a"]

PadLens ==
    {0} \cup ((MaxNameLen - PadSpan)..(MaxNameLen + PadSpan))

\* hthttp://tp://   (removing the inner http:// leaves http://)
NESTED_HTTP ==
    <<"h", "t", "h", "t", "t", "p", ":", "/", "/", "t", "p", ":", "/", "/">>

\* httphttps://s://   (removing https:// leaves https://)
NESTED_HTTPS ==
    <<"h", "t", "t", "p", "h", "t", "t", "p", "s", ":", "/", "/", "s", ":",
      "/", "/">>

\* HTTP://
UPPER_HTTP ==
    <<"H", "T", "T", "P", ":", "/", "/">>

SanPrefixes ==
    {<<>>, HTTP, HTTPS, NESTED_HTTP, NESTED_HTTPS, UPPER_HTTP}

SanBodies ==
    {<<>>,
     <<"a", ".", "b", "/", "c">>,
     <<"x", ".", "j", "s", "o", "n">>,
     <<"Q", "_", "9", "?", "u", "=", "h", "t", "t", "p", ":", "/", "/", "z">>}

SanUrls ==
    {p \o b \o Pad(n) : p \in SanPrefixes, b \in SanBodies, n \in PadLens}

\* name without its last five characters
WithoutExt(name) ==
    SubSeq(name, 1, Len(name) - Len(JSON_EXT))

SanInit ==
    /\ MainInit
    /\ s_pc = "url"
    /\ s_url \in SanUrls
    /\ s_name = <<>>
    /\ s_again = <<>>
    /\ s_fed = "none"

\* filename = ... (lines 40-44) for url = s_url
Derive ==
    /\ s_pc = "url"
    /\ s_name' = filename(s_url)
    /\ s_pc' = "named"
    /\ UNCHANGED <<s_url, s_again, s_fed, callVars, driverVars, fileVars>>

\* The same lines for url = the filename just derived, whole or without
\* its extension.
Rederive ==
    /\ s_pc = "named"
    /\ \E fed \in {"name", "stem"} :
        /\ s_fed' = fed
        /\ s_again' = filename(IF fed = "name" THEN s_name
                               ELSE WithoutExt(s_name))
    /\ s_pc' = "again"
    /\ UNCHANGED <<s_url, s_name, callVars, driverVars, fileVars>>

SanNext ==
    \/ Derive
    \/ Rederive

SanSpec ==
    SanInit /\ [][SanNext]_vars

(***************************************************************************)
(* Properties                                                              *)
(***************************************************************************)
SaveCalls ==
    {"extract_and_save", "extract_next_data"}

ExtractCalls ==
    SaveCalls \cup {"extract_page_props"}

\* The statements after the try/except of extract_page_props has produced
\* its result (the value to return, or None with the exception caught).
PastTry ==
    {"finally", "branch", "save", "return"}

FileOps ==
    {"makedirs", "open", "write"}

\* The call's log holds operation op with outcome ok.
Did(op, ok) ==
    \E i \in 1..Len(log) : log[i] = [op |-> op, ok |-> ok]

Count(op) ==
    Cardinality({i \in 1..Len(log) : log[i].op = op})

\* Operation a, where the log holds it, comes after a successful b.
After(a, b) ==
    \A j \in 1..Len(log) :
        log[j].op = a => \E i \in 1..(j - 1) : log[i] = [op |-> b, ok |-> TRUE]

\* The decoded blob is a dict whose key props holds a dict with the key
\* pageProps.
KeyPathPresent(v) ==
    /\ v.t = "obj"
    /\ \E i \in 1..Len(v.kv) :
        /\ v.kv[i][1] = PROPS
        /\ v.kv[i][2].t = "obj"
        /\ \E j \in 1..Len(v.kv[i][2].kv) : v.kv[i][2].kv[j][1] = PAGE_PROPS

\* The values at props -> pageProps (one, as a dict holds a key once; none
\* when the path is not there).
ValuesAtPath(v) ==
    IF v.t # "obj" THEN {}
    ELSE UNION {IF v.kv[i][1] = PROPS /\ v.kv[i][2].t = "obj"
                THEN {v.kv[i][2].kv[j][2] :
                        j \in {j \in 1..Len(v.kv[i][2].kv) :
                                  v.kv[i][2].kv[j][1] = PAGE_PROPS}}
                ELSE {} : i \in 1..Len(v.kv)}

\* {"a": 1}
OBJ_A1 ==
    JObj(<< <<(<<"a">>), JNum(1)>> >>)

\* C1: extract_and_save (and extract_next_data) returns True if and only
\* if the extraction succeeded and save_data_to_json wrote the file and
\* returned its path.
C1_TrueIffExtractedAndSaved ==
    (pc = "return" /\ call \in SaveCalls /\ ~raised)
        => ((result = "True") <=> (error = "" /\ save_ret = "path"))

\* C2: quit() is invoked exactly once on every session a call opened: not
\* yet while the call that opened it is in its try block, once from then on
\* (after the finally clause, after __exit__, during later calls).
C2_QuitExactlyOnce ==
    \A s \in 1..opened :
        IF /\ s = opened
           /\ pc \notin {"idle", "exit", "branch", "save", "return"}
           /\ Did("launch", TRUE)
        THEN quits[s] = 0
        ELSE quits[s] = 1

\* C3: no exception leaves extract_page_props or extract_and_save: every
\* call returns to its caller.
C3_NoExceptionCrosses ==
    (pc = "return" /\ call \in ExtractCalls) => ~raised

\* C4: when every driver operation of the call succeeded and the element's
\* text decodes to a blob with an object v at props -> pageProps, the
\* result of extract_page_props is exactly v; the text
\* {"props":{"pageProps":{"a":1}}} gives {"a": 1}.
C4_ReturnsNestedObject ==
    (/\ pc \in PastTry
     /\ call \in ExtractCalls
     /\ ~raised
     /\ \A i \in 1..Len(log) : log[i].op \notin FileOps => log[i].ok
     /\ Did("parse", TRUE))
        => /\ \A v \in ValuesAtPath(next_data) :
                v.t = "obj" => (page_props = v /\ error = "")
           /\ script_text = T_a1 => page_props = OBJ_A1

C4_Witness ==
    /\ pc = "return"
    /\ call = "extract_page_props"
    /\ ~raised
    /\ Did("quit", TRUE)
    /\ script_text = T_a1_page
    /\ page_props = OBJ_A1
    /\ page_props # next_data

\* C5 as stated: a text that decodes but holds no object at
\* props -> pageProps makes the extraction fail with None, and the result
\* is never a non-object value.
C5_NonObjectRejected ==
    (pc \in PastTry /\ call \in ExtractCalls /\ Did("parse", TRUE))
        => /\ page_props.t \in {"obj", "null"}
           /\ (\A v \in ValuesAtPath(next_data) : v.t # "obj")
                => (page_props = JNull /\ error # "")

\* C5 amended: a text that decodes but does not hold the key pageProps in
\* a dict under the top-level key props makes the extraction fail (a
\* ValueError or a TypeError, caught) with None as its result; when the key
\* is there, its value is the result whatever its type.
C5_KeyPresenceOnly ==
    (pc \in PastTry /\ call \in ExtractCalls /\ Did("parse", TRUE))
        => /\ ~KeyPathPresent(next_data)
                => /\ page_props = JNull
                   /\ error \in {"TypeError",
                                 "ValueError: Missing props.pageProps"}
           /\ KeyPathPresent(next_data)
                => /\ page_props \in ValuesAtPath(next_data)
                   /\ error = ""

C5_Witness ==
    /\ pc = "return"
    /\ call = "extract_page_props"
    /\ ~raised
    /\ script_text = T_num
    /\ page_props = JNum(5)
    /\ error = ""

\* C6 as stated: deriving the filename of a derived filename gives that
\* filename again.
C6_Idempotent ==
    (s_pc = "again" /\ s_fed = "name") => s_again = s_name

\* C6 amended: deriving the filename of a derived filename without its
\* .json extension gives that filename again; with the extension it does
\* so exactly when the name before the extension has the full 100
\* characters (the "." becomes "_" and is cut off again).
C6_IdempotentOnStem ==
    s_pc = "again"
        => /\ s_fed = "stem" => s_again = s_name
           /\ s_fed = "name"
                => (s_again = s_name <=> Len(s_name) = MaxNameLen + Len(JSON_EXT))

C6_Witness ==
    /\ s_pc = "again"
    /\ s_fed = "name"
    /\ s_again # s_name
    /\ Len(s_url) > 0
    /\ Len(s_name) < MaxNameLen

\* C7: the derived filename is at most 100 characters, each alphanumeric
\* or "_", followed by ".json" (at most 105 in all), and holds neither
\* "http://" nor "https://"; a URL that starts with its only protocol
\* prefix gives the name of what follows the prefix.
C7_BoundedCleanName ==
    s_pc \in {"named", "again"}
        => /\ Len(s_name) >= Len(JSON_EXT)
           /\ Len(s_name) <= 105
           /\ From(s_name, Len(s_name) - 4) = JSON_EXT
           /\ Len(WithoutExt(s_name)) <= 100
           /\ \A i \in 1..Len(WithoutExt(s_name)) :
                s_name[i] \in Letters \cup Digits \cup {"_"}
           /\ ~Contains(s_name, HTTP)
           /\ ~Contains(s_name, HTTPS)
           /\ \A p \in {HTTP, HTTPS} :
                (/\ StartsWith(s_url, p)
                 /\ ~Contains(From(s_url, Len(p) + 1), <<":", "/", "/">>))
                    => \A i \in 1..Len(WithoutExt(s_name)) :
                         s_name[i] \in {s_url[Len(p) + i], "_"}

C7_Witness ==
    /\ s_pc = "named"
    /\ StartsWith(s_url, HTTPS)
    /\ Len(s_url) > 105
    /\ Len(s_name) = 105
    /\ \E i \in 1..Len(s_name) : s_name[i] = "_"

\* C8: at most one browser opened by the extractor is running at any
\* time, none is running between calls or when a call ends, and a running
\* browser is always the one the self.driver of the running call refers to
\* (never dropped or overwritten).
C8_OneLiveNoneAfterCall ==
    /\ Cardinality(live) <= 1
    /\ pc \in {"idle", "return"} => live = {}
    /\ live \subseteq {SelfDriver}

\* The place of an operation in the order of a call.
Rank(op) ==
    CASE op = "launch" -> 1 [] op = "set_timeout" -> 2 [] op = "get_home" -> 3
      [] op = "get_page" -> 4 [] op = "scroll" -> 5 [] op = "wait_ready" -> 6
      [] op = "wait_elem" -> 7 [] op = "read" -> 8 [] op = "parse" -> 9
      [] op = "quit" -> 10 [] op = "makedirs" -> 11 [] op = "open" -> 12
      [] op = "write" -> 13

\* C9: the operations of a call happen in the fixed order launch, homepage,
\* target page, scroll, ready-state wait, element wait, read, parse, quit,
\* then the file operations; each only after the one the claim names
\* before it has succeeded, and the file is written only once the session
\* is closed.
C9_FixedOrder ==
    /\ \A i, j \in 1..Len(log) : i < j => Rank(log[i].op) < Rank(log[j].op)
    /\ After("get_home", "launch")
    /\ After("get_page", "get_home")
    /\ After("wait_ready", "get_page")
    /\ After("wait_elem", "wait_ready")
    /\ After("read", "wait_ready")
    /\ After("parse", "read")
    /\ \A f \in FileOps :
        /\ After(f, "parse")
        /\ After(f, "quit")
        /\ Count(f) > 0 => (SelfDriver = 0 /\ opened \notin live)

C9_Witness ==
    /\ pc = "return"
    /\ call = "extract_and_save"
    /\ result = "True"
    /\ save_ret = "path"
    /\ Len(log) = 13

\* C10: when extract_page_props gives None (or raises), extract_and_save
\* does not call save_data_to_json: no file operation, the folder and its
\* files as they were when the call started, False returned; and the
\* extraction was attempted once: one launch, each URL requested at most
\* once.
C10_NoSaveNoRetry ==
    (pc = "return" /\ call \in SaveCalls /\ (page_props = JNull \/ raised))
        => /\ \A f \in FileOps : Count(f) = 0
           /\ save_ret = "unset"
           /\ dir_exists = before.dir
           /\ files = before.files
           /\ ~raised => result = "False"
           /\ Count("launch") = 1
           /\ Count("get_home") <= 1
           /\ Count("get_page") <= 1

C10_Witness ==
    /\ pc = "return"
    /\ call = "extract_and_save"
    /\ ~raised
    /\ error = "JSONDecodeError"
    /\ result = "False"
    /\ Count("get_page") = 1
    /\ DOMAIN files # {}

====
